---- MODULE Spec2Model ----
(***************************************************************************)
(* Model of the terminal session engine (class TerminalManager): the       *)
(* session registry, the pty processes and their callbacks, the bounded    *)
(* output buffer, executeCommand's completion detector with its timers,    *)
(* closeAllSessions with its delayed deletions, and the periodic cleanup.  *)
(*                                                                         *)
(* A session object is identified by the pid of the process spawned for it *)
(* (one spawn per createSession); the registry maps session ids to these   *)
(* objects, as the Map `sessions` does.  Text is a sequence of one-        *)
(* character strings, so that splitting, ANSI stripping and the prompt     *)
(* regular expressions are computed on characters.                         *)
(***************************************************************************)
EXTENDS Integers, Sequences, FiniteSets, TLC

VARIABLES
  registry,    \* this.sessions: session id -> session object (0: no entry)
  sess,        \* the session objects, by the pid of their process
  proc,        \* the pty processes: "none", "alive", "exited" (onExit pending), "done"
  ctx,         \* the execution contexts of the executeCommand calls
  delTimers,   \* pending setTimeout(() => sessions.delete(id), 5000) timers
  cleanupDue,  \* next expiry of the setInterval cleanup timer
  now,         \* the clock, in ticks
  usedIds,     \* history: every id ever registered
  hist,        \* history: every line ever appended to a session object, in order
  closedEmits, \* history: the times of the 'sessionClosed' events emitted per session object
  ev,          \* the last call or callback and its outcome
  lim,         \* the bounds of the scenario being explored (never changes)
  held         \* the list a caller got from readSessionOutput and kept

vars == <<registry, sess, proc, ctx, delTimers, cleanupDue, now, usedIds, hist,
          closedEmits, ev, lim, held>>

(***************************************************************************)
(* Bounds of the model and scaled configuration values.  Times are in      *)
(* ticks of the clock.                                                     *)
(***************************************************************************)
MaxProc == 2          \* createSession calls that reach pty.spawn
MaxIds == 2           \* size of the session id space
MaxExec == 2          \* executeCommand calls that pass _getActiveSession
MaxHist == 5          \* lines delivered to a session object, buffer scenario
ExecHist == 4         \* lines delivered to a session object, execute scenario
PairHist == 1         \* lines delivered to a session object, two-session scenario
PromptHist == 2       \* lines delivered to a session object, prompt scenario
MaxTime == 3          \* last tick of the clock
MaxOutputLines == 3   \* TERMINAL_CONFIG.MAX_OUTPUT_LINES, scaled
SessionTimeout == 2   \* TERMINAL_CONFIG.SESSION_TIMEOUT, scaled
CleanupInterval == 3  \* TERMINAL_CONFIG.CLEANUP_INTERVAL, scaled
GraceDelay == 2       \* the 5000 ms of _scheduleSessionDeletion, scaled
InitialDelay == 2     \* the 100 ms before the first completion check, scaled
PollInterval == 1     \* the 50 ms between completion checks, scaled
MaxTimeout == 3       \* largest timeout argument of executeCommand

Pids == 1..MaxProc
SessionIds == 1..MaxIds
Calls == 1..MaxExec
NoId == 0

(***************************************************************************)
(* Text: characters, chunks the shells emit, splitting, prompt patterns.   *)
(***************************************************************************)
ESC == "ESC"
Letters == {"P", "S", "C", "h", "i", "m", "a", "b"}
Digits == {"0", "1", "3"}

IsSpace(ch) == ch \in {" ", "\r", "\n", "\t"}
IsLetter(ch) == ch \in Letters

\* the data chunks a pty delivers to onData
ChunkHi == <<"h", "i", "\n">>
ChunkPs == <<"P", "S", " ", "C", ":", "\\", ">", " ">>
ChunkCmd == <<"C", ":", "\\", ">">>
ChunkMulti == <<"a", "\r", "\n", "b", ">">>
Chunks == {ChunkHi, ChunkPs, ChunkCmd, ChunkMulti}

\* data.split(/\r?\n/)
RECURSIVE SplitFrom(_, _, _, _)
SplitFrom(d, i, cur, acc) ==
  IF i > Len(d) THEN Append(acc, cur)
  ELSE IF d[i] = "\n"
       THEN LET line == IF Len(cur) > 0 /\ cur[Len(cur)] = "\r"
                        THEN SubSeq(cur, 1, Len(cur) - 1) ELSE cur
            IN SplitFrom(d, i + 1, <<>>, Append(acc, line))
       ELSE SplitFrom(d, i + 1, Append(cur, d[i]), acc)

SplitLines(d) == SplitFrom(d, 1, <<>>, <<>>)

\* Array.prototype.join('') of a list of lines
RECURSIVE JoinLines(_)
JoinLines(ls) == IF ls = <<>> THEN <<>> ELSE Head(ls) \o JoinLines(Tail(ls))

\* Array.prototype.slice(n) for n >= 0, and slice(-2)
SliceFrom(s, n) == SubSeq(s, n + 1, Len(s))
LastTwo(s) == IF Len(s) <= 2 THEN s ELSE SubSeq(s, Len(s) - 1, Len(s))

\* end (index of the final letter) of the escape sequence ESC [ [0-9;]* [mGKH]
\* that starts at i, or 0 when none starts there
RECURSIVE AnsiScan(_, _)
AnsiScan(s, j) ==
  IF j > Len(s) THEN 0
  ELSE IF s[j] \in Digits \cup {";"} THEN AnsiScan(s, j + 1)
  ELSE IF s[j] \in {"m", "G", "K", "H"} THEN j
  ELSE 0

AnsiEnd(s, i) ==
  IF i + 2 <= Len(s) /\ s[i] = ESC /\ s[i + 1] = "[" THEN AnsiScan(s, i + 2) ELSE 0

\* text.replace(/\u001b\[[0-9;]*[mGKH]/g, '')
RECURSIVE StripFrom(_, _)
StripFrom(s, i) ==
  IF i > Len(s) THEN <<>>
  ELSE IF AnsiEnd(s, i) > 0 THEN StripFrom(s, AnsiEnd(s, i) + 1)
  ELSE <<s[i]>> \o StripFrom(s, i + 1)

StripAnsi(s) == StripFrom(s, 1)

\* index of the last character that is not white space (0: none)
LastNonSpace(s) ==
  IF \E k \in 1..Len(s) : ~IsSpace(s[k])
  THEN CHOOSE k \in 1..Len(s) : ~IsSpace(s[k]) /\ \A m \in (k + 1)..Len(s) : IsSpace(s[m])
  ELSE 0

\* [A-Z]:\\[^>]*>\s*$ with the i flag, the letter at position j
DrivePathAt(s, j) ==
  LET k == LastNonSpace(s)
  IN /\ j >= 1
     /\ j + 3 <= k
     /\ s[k] = ">"
     /\ IsLetter(s[j])
     /\ s[j + 1] = ":"
     /\ s[j + 2] = "\\"
     /\ \A m \in (j + 3)..(k - 1) : s[m] # ">"

\* TERMINAL_REGEX.GENERIC_PROMPT: />\s*$/
GenericPrompt(s) == LastNonSpace(s) > 0 /\ s[LastNonSpace(s)] = ">"

\* TERMINAL_REGEX.CMD_PROMPT: /[A-Za-z]:\\[^>]*>\s*$/i
CmdPrompt(s) == \E j \in 1..Len(s) : DrivePathAt(s, j)

\* TERMINAL_REGEX.PS_PROMPT: /PS\s+[A-Z]:\\[^>]*>\s*$/i
PsPrompt(s) ==
  \E i \in 1..Len(s) : \E j \in (i + 3)..Len(s) :
     /\ s[i] \in {"P", "p"}
     /\ s[i + 1] \in {"S", "s"}
     /\ \A m \in (i + 2)..(j - 1) : IsSpace(s[m])
     /\ DrivePathAt(s, j)

\* mutant of _hasPrompt: the terminal type is not looked at
HasPromptAnyType(type, text) == CmdPrompt(text) \/ GenericPrompt(text)

\* _hasPrompt(terminalType, text)
HasPrompt(type, text) ==
  IF type = "powershell" THEN PsPrompt(text)
  ELSE CmdPrompt(text) \/ GenericPrompt(text)

(***************************************************************************)
(* Session objects, processes and execution contexts.                      *)
(***************************************************************************)
DefaultType == "powershell"   \* TERMINAL_CONFIG.DEFAULT_TYPE
TypeArgs == {"", "cmd", "bash"}                 \* "" stands for null
CwdArgs == {"", "Users\\test", "C:\\Users\\test"}
IdArgs == SessionIds \cup {NoId}                \* NoId stands for null
ExitCodes == {0, 1}
Timeouts == {1, MaxTimeout}
Command == <<"l", "s">>
CommandArgs == {<<>>, Command}                  \* <<>> stands for a missing command
CR == "\r"

\* The scenarios: each bounds the calls and callbacks of one exploration.
\* observe: calls that fail are issued too; infos: getSessionInfo and
\* getAllSessions are issued; reads: readSessionOutput is issued; keeps: the
\* caller keeps the list readSessionOutput returned and may change it;
\* tools: the calls come through ToolExecutor.executeTool; stops: the server
\* may be shut down; calls: the last time at which callers make calls; quiet:
\* no process exits by itself and closeAllSessions is not called; timeouts:
\* the timeout arguments of executeCommand.
ScBuffer ==
  [procs |-> 1, execs |-> 0, hist |-> MaxHist, time |-> 0, chunks |-> Chunks,
   types |-> {""}, ids |-> {NoId}, codes |-> {1}, observe |-> FALSE,
   infos |-> FALSE, reads |-> TRUE, keeps |-> FALSE,
   tools |-> FALSE, stops |-> FALSE,
   calls |-> MaxTime, quiet |-> FALSE, timeouts |-> Timeouts]
ScObserve ==
  [procs |-> 1, execs |-> 0, hist |-> PairHist, time |-> MaxTime, chunks |-> {ChunkPs},
   types |-> TypeArgs, ids |-> {NoId}, codes |-> ExitCodes, observe |-> TRUE,
   infos |-> TRUE, reads |-> TRUE, keeps |-> FALSE,
   tools |-> FALSE, stops |-> TRUE,
   calls |-> MaxTime, quiet |-> FALSE, timeouts |-> Timeouts]
ScCopy ==
  [procs |-> 1, execs |-> 0, hist |-> MaxHist, time |-> 0, chunks |-> {ChunkHi, ChunkPs},
   types |-> {""}, ids |-> {NoId}, codes |-> {1}, observe |-> FALSE,
   infos |-> FALSE, reads |-> TRUE, keeps |-> TRUE,
   tools |-> FALSE, stops |-> FALSE,
   calls |-> MaxTime, quiet |-> FALSE, timeouts |-> Timeouts]
ScExec ==
  [procs |-> 1, execs |-> 1, hist |-> ExecHist, time |-> MaxTime,
   chunks |-> {ChunkHi, ChunkPs}, types |-> {""}, ids |-> {NoId}, codes |-> {1},
   observe |-> FALSE, infos |-> FALSE, reads |-> TRUE, keeps |-> FALSE,
   tools |-> FALSE, stops |-> FALSE,
   calls |-> MaxTime, quiet |-> FALSE, timeouts |-> {MaxTimeout}]
ScPair ==
  [procs |-> MaxProc, execs |-> 0, hist |-> PairHist, time |-> MaxTime,
   chunks |-> {ChunkPs}, types |-> {""}, ids |-> {NoId, 1}, codes |-> {1},
   observe |-> FALSE, infos |-> FALSE, reads |-> FALSE, keeps |-> FALSE,
   tools |-> FALSE, stops |-> FALSE,
   calls |-> MaxTime, quiet |-> FALSE, timeouts |-> Timeouts]
ScTools ==
  [procs |-> 1, execs |-> 0, hist |-> PairHist, time |-> 0,
   chunks |-> {ChunkPs}, types |-> TypeArgs, ids |-> {NoId}, codes |-> {1},
   observe |-> TRUE, infos |-> FALSE, reads |-> FALSE, keeps |-> FALSE,
   tools |-> TRUE, stops |-> FALSE,
   calls |-> MaxTime, quiet |-> FALSE, timeouts |-> Timeouts]
ScToolExec ==
  [procs |-> 1, execs |-> 1, hist |-> PairHist, time |-> MaxTime,
   chunks |-> {ChunkPs}, types |-> {""}, ids |-> {NoId}, codes |-> {1},
   observe |-> FALSE, infos |-> FALSE, reads |-> FALSE, keeps |-> FALSE,
   tools |-> TRUE, stops |-> FALSE,
   calls |-> MaxTime, quiet |-> FALSE, timeouts |-> Timeouts]
ScConcurrent ==
  [procs |-> MaxProc, execs |-> MaxExec, hist |-> PairHist, time |-> MaxTime,
   chunks |-> {ChunkPs}, types |-> {""}, ids |-> {NoId}, codes |-> {1},
   observe |-> FALSE, infos |-> TRUE, reads |-> TRUE, keeps |-> FALSE,
   tools |-> FALSE, stops |-> FALSE,
   calls |-> 0, quiet |-> TRUE, timeouts |-> {MaxTimeout}]
ScPrompt ==
  [procs |-> 1, execs |-> 1, hist |-> PromptHist, time |-> MaxTime,
   chunks |-> {ChunkMulti, ChunkCmd, ChunkPs}, types |-> {"", "cmd"}, ids |-> {NoId},
   codes |-> {1}, observe |-> FALSE, infos |-> FALSE, reads |-> FALSE, keeps |-> FALSE,
   tools |-> FALSE, stops |-> FALSE,
   calls |-> 0, quiet |-> TRUE, timeouts |-> {MaxTimeout}]
Scenarios ==
  {ScBuffer, ScObserve, ScCopy, ScExec, ScPair, ScTools, ScToolExec, ScConcurrent,
   ScPrompt}

\* the scenario of the runs explored under fairness: one session, one
\* executeCommand call, every kind of call and callback
ScLive ==
  [procs |-> 1, execs |-> 1, hist |-> PairHist, time |-> MaxTime,
   chunks |-> {ChunkPs}, types |-> {""}, ids |-> {NoId}, codes |-> {1},
   observe |-> FALSE, infos |-> TRUE, reads |-> TRUE, keeps |-> TRUE,
   tools |-> TRUE, stops |-> FALSE,
   calls |-> MaxTime, quiet |-> FALSE, timeouts |-> Timeouts]

NoSession ==
  [id |-> NoId, status |-> "none", exitCode |-> <<>>, output |-> <<>>,
   lastActivity |-> 0, type |-> "none"]

NoCtx ==
  [o |-> 0, startLength |-> 0, lastLength |-> 0, stableCount |-> 0,
   timeoutArmed |-> FALSE, timeoutDue |-> 0, pollArmed |-> FALSE, pollDue |-> 0,
   outcome |-> "none", result |-> <<>>, histStart |-> 0, histSettled |-> 0,
   histPolled |-> 0, histQuiet |-> 0, tool |-> <<>>]

\* no result of executeTool: the step is not the return of a tool call
NoResult == [none |-> TRUE]

NoEv ==
  [op |-> "init", sid |-> NoId, outcome |-> "ok", args |-> <<>>, value |-> <<>>,
   wrote |-> <<>>, info |-> {}, closed |-> {}, failed |-> {}, removed |-> {},
   result |-> NoResult]

\* no list is held by a caller
NoHeld == [set |-> FALSE, of |-> 0, alias |-> FALSE, val |-> <<>>]

\* mutant of the result of readSessionOutput: session.output itself is returned
ReadResultAlias(o) == [set |-> TRUE, of |-> o, alias |-> TRUE, val |-> <<>>]

\* the result of readSessionOutput, [...session.output]: a new array holding
\* the lines of the buffer of session object o
ReadResult(o) == [set |-> TRUE, of |-> o, alias |-> FALSE, val |-> sess[o].output]

\* the lines of the list the caller holds: its own, or those of the array it
\* is an alias of
HeldList == IF held.alias THEN sess[held.of].output ELSE held.val

\* the server process has not exited
Serving == ev.op # "shutdown"

\* mutant of the handling of calls: no call is handled while an
\* executeCommand is waiting
CallingOneAtATime ==
  /\ Serving
  /\ now <= lim.calls
  /\ \A c \in Calls : ctx[c].outcome # "pending"

\* a caller may make a call
Calling == Serving /\ now <= lim.calls

Event(op, sid, outcome) == [NoEv EXCEPT !.op = op, !.sid = sid, !.outcome = outcome]

\* the event of a call, with the arguments it was given
Called(op, args, sid, outcome) == [Event(op, sid, outcome) EXCEPT !.args = args]

\* path.isAbsolute(cwd) on the working directories of the model
IsAbsolute(cwd) == cwd = "C:\\Users\\test"

\* mutant of _validateWorkingDirectory: path.isAbsolute is not called
InvalidWorkingDirectoryEmptyOnly(cwd) == cwd = ""

\* _validateWorkingDirectory: true when it throws
InvalidWorkingDirectory(cwd) == cwd = "" \/ ~IsAbsolute(cwd)

\* AppConfig.getShellPath: true when the type has a shell path
HasShellPath(type) == type \in {"powershell", "cmd"}

\* randomUUID(): an id that was never used
RandomUUID == CHOOSE i \in SessionIds \ usedIds : \A j \in SessionIds \ usedIds : i <= j

\* the pid pty.spawn gives the next process
NextPid == CHOOSE p \in Pids : proc[p] = "none" /\ \A q \in Pids : proc[q] = "none" => p <= q

\* terminalType = type || DEFAULT_TYPE and sessionId = id || randomUUID()
TerminalType(type) == IF type = "" THEN DefaultType ELSE type
SessionIdFor(id) == IF id # NoId THEN id ELSE RandomUUID

\* _createSessionData
CreateSessionData(sessionId, type, t) ==
  [id |-> sessionId, status |-> "active", exitCode |-> <<>>, output |-> <<>>,
   lastActivity |-> t, type |-> type]

\* _buildSessionInfo
BuildSessionInfo(o) ==
  [sessionId |-> sess[o].id, type |-> sess[o].type, status |-> sess[o].status,
   pid |-> o, lastActivity |-> sess[o].lastActivity, outputLines |-> Len(sess[o].output)]

\* ToolExecutor._createToolResult: { success, ...data, timestamp }; a later
\* key replaces an earlier one of the same name
CreateToolResult(success, data, timestamp) ==
  [timestamp |-> timestamp] @@ data @@ [success |-> success]

\* the catch block of executeTool: the error is returned as a result
ToolFailure(error, timestamp) == CreateToolResult(FALSE, [error |-> error], timestamp)

\* output.filter(line => line.trim()): the lines that are not blank
FilterBlank(lines) ==
  SelectSeq(lines, LAMBDA line : \E k \in 1..Len(line) : ~IsSpace(line[k]))

\* mutant of _addOutputLines: the excess is cut off the end
AddOutputLinesKeepOldest(output, newLines) ==
  LET pushed == output \o newLines
  IN IF Len(pushed) > MaxOutputLines THEN SubSeq(pushed, 1, MaxOutputLines) ELSE pushed

\* mutant of _addOutputLines: one line is spliced off however many were pushed
AddOutputLinesTrimOne(output, newLines) ==
  LET pushed == output \o newLines
  IN IF Len(pushed) > MaxOutputLines THEN Tail(pushed) ELSE pushed

\* _addOutputLines: push the new lines, then splice the excess off the front
AddOutputLines(output, newLines) ==
  LET pushed == output \o newLines
  IN IF Len(pushed) > MaxOutputLines
     THEN SubSeq(pushed, Len(pushed) - MaxOutputLines + 1, Len(pushed))
     ELSE pushed

\* mutant of _updateSessionActivity: lastActivity is left as it is
UpdateSessionActivityNever(s, t) == s

\* _updateSessionActivity
UpdateSessionActivity(s, t) == [s EXCEPT !.lastActivity = t]

\* mutant of _handleSessionExit: the status is toggled
HandleSessionExitToggle(s, code) ==
  [s EXCEPT !.status = IF @ = "closed" THEN "active" ELSE "closed", !.exitCode = <<code>>]

\* the body of _handleSessionExit on the session found in the registry
HandleSessionExit(s, code) == [s EXCEPT !.status = "closed", !.exitCode = <<code>>]

\* the state change of _closeSingleSession after kill() returned
CloseSingleSession(s) == [s EXCEPT !.status = "closed"]

\* mutant of _shouldCleanupSession: only closed sessions are cleaned up
ShouldCleanupSessionClosedOnly(s, t) == s.status = "closed"

\* mutant of _shouldCleanupSession: every session is cleaned up
ShouldCleanupSessionAlways(s, t) == TRUE

\* _shouldCleanupSession
ShouldCleanupSession(s, t) == s.status = "closed" \/ (t - s.lastActivity) > SessionTimeout

\* ptyProcess.kill(): the process state afterwards
Kill(st, throws) == IF ~throws /\ st = "alive" THEN "exited" ELSE st

\* ptyProcess.write on a process that has exited may throw or be dropped
PtyWriteThrows(p) == IF proc[p] = "alive" THEN {FALSE} ELSE {FALSE, TRUE}

\* input + '\r' or input
DataToWrite(input, addNewline) == IF addNewline THEN Append(input, CR) ELSE input

Registered == {i \in SessionIds : registry[i] # 0}
RegisteredObjects == {registry[i] : i \in Registered}

\* _getActiveSessions, as the set of their ids
ActiveSessions == {i \in Registered : sess[registry[i]].status = "active"}

\* mutant of _getSession: an id without an entry is reported as a closed session
GetSessionErrorAbsentIsClosed(sid) == IF registry[sid] = 0 THEN "SessionClosed" ELSE "ok"

\* the error _getSession / _getActiveSession throws for an id ("ok": none)
GetSessionError(sid) == IF registry[sid] = 0 THEN "NotFound" ELSE "ok"

\* mutant of _getActiveSession: the status is not looked at
GetActiveSessionErrorNoStatus(sid) == GetSessionError(sid)

GetActiveSessionError(sid) ==
  IF registry[sid] = 0 THEN "NotFound"
  ELSE IF sess[registry[sid]].status # "active" THEN "SessionClosed"
  ELSE "ok"

TypeOK ==
  /\ registry \in [SessionIds -> 0..MaxProc]
  /\ DOMAIN sess = Pids
  /\ proc \in [Pids -> {"none", "alive", "exited", "done"}]
  /\ DOMAIN ctx = Calls
  /\ now \in 0..MaxTime
  /\ usedIds \subseteq SessionIds
  /\ lim \in Scenarios \cup {ScLive}

InitState ==
  /\ registry = [i \in SessionIds |-> 0]
  /\ sess = [p \in Pids |-> NoSession]
  /\ proc = [p \in Pids |-> "none"]
  /\ ctx = [c \in Calls |-> NoCtx]
  /\ delTimers = {}
  /\ cleanupDue = CleanupInterval
  /\ now = 0
  /\ usedIds = {}
  /\ hist = [p \in Pids |-> <<>>]
  /\ closedEmits = [p \in Pids |-> <<>>]
  /\ ev = NoEv
  /\ held = NoHeld

Init == InitState /\ lim \in Scenarios

FairInit == InitState /\ lim = ScLive

(***************************************************************************)
(* createSession(type, cwd, id)                                            *)
(***************************************************************************)
\* mutant of createSession: the session is registered before pty.spawn is called
CreateSessionRegistersFirst(type, cwd, id, spawnFails) ==
  LET terminalType == TerminalType(type)
      sessionId == SessionIdFor(id)
      pid == NextPid
  IN /\ Calling
     /\ type \in lim.types
     /\ id \in lim.ids
     /\ IF InvalidWorkingDirectory(cwd) \/ ~HasShellPath(terminalType)
        THEN /\ lim.observe
             /\ ~spawnFails
             /\ ev' = Called("create", <<type, cwd>>, id, "InvalidArgument")
             /\ UNCHANGED <<registry, sess, proc, ctx, delTimers, cleanupDue, now, usedIds,
                            hist, closedEmits, lim, held>>
        ELSE /\ id = NoId => SessionIds \ usedIds # {}
             /\ \E p \in 1..lim.procs : proc[p] = "none"
             /\ spawnFails => lim.observe
             /\ proc' = [proc EXCEPT ![pid] = IF spawnFails THEN "done" ELSE "alive"]
             /\ sess' = [sess EXCEPT
                           ![pid] = CreateSessionData(sessionId, terminalType, now)]
             /\ registry' = [registry EXCEPT ![sessionId] = pid]
             /\ usedIds' = usedIds \cup {sessionId}
             /\ ev' = Called("create", <<type, cwd>>, IF spawnFails THEN id ELSE sessionId,
                             IF spawnFails THEN "SpawnFailed" ELSE "ok")
             /\ UNCHANGED <<ctx, delTimers, cleanupDue, now, hist, closedEmits, lim, held>>

CreateSession(type, cwd, id, spawnFails) ==
  LET terminalType == TerminalType(type)
      sessionId == SessionIdFor(id)
      pid == NextPid
  IN /\ Calling
     /\ type \in lim.types
     /\ id \in lim.ids
     /\ IF InvalidWorkingDirectory(cwd) \/ ~HasShellPath(terminalType)
        THEN /\ lim.observe
             /\ ~spawnFails                            \* spawn is not reached
             /\ ev' = Called("create", <<type, cwd>>, id, "InvalidArgument")
             /\ UNCHANGED <<registry, sess, proc, ctx, delTimers, cleanupDue, now, usedIds,
                            hist, closedEmits, lim, held>>
        ELSE /\ id = NoId => SessionIds \ usedIds # {}
             /\ \E p \in 1..lim.procs : proc[p] = "none"
             /\ IF spawnFails
                THEN /\ lim.observe
                     /\ ev' = Called("create", <<type, cwd>>, id, "SpawnFailed")
                     /\ UNCHANGED <<registry, sess, proc, ctx, delTimers, cleanupDue, now,
                                    usedIds, hist, closedEmits, lim, held>>
                ELSE /\ proc' = [proc EXCEPT ![pid] = "alive"]
                     /\ sess' = [sess EXCEPT
                                   ![pid] = CreateSessionData(sessionId, terminalType, now)]
                     /\ registry' = [registry EXCEPT ![sessionId] = pid]
                     /\ usedIds' = usedIds \cup {sessionId}
                     /\ ev' = Called("create", <<type, cwd>>, sessionId, "ok")
                     /\ UNCHANGED <<ctx, delTimers, cleanupDue, now, hist, closedEmits, lim, held>>

(***************************************************************************)
(* The pty callbacks: onData -> appendOutput, onExit -> _handleSessionExit *)
(***************************************************************************)
\* appendOutput(sessionId, data), called by the onData handler of process p
AppendOutput(p, data) ==
  LET sessionId == sess[p].id
      o == registry[sessionId]
      newLines == SplitLines(data)
  IN /\ Serving
     /\ proc[p] \in {"alive", "exited"}
     /\ data \in lim.chunks
     /\ IF o = 0
        THEN /\ lim.observe
             /\ ev' = Event("data", sessionId, "NotFound")
             /\ UNCHANGED <<sess, hist>>
        ELSE /\ Len(hist[o]) + Len(newLines) <= lim.hist
             /\ sess' = [sess EXCEPT
                           ![o] = UpdateSessionActivity(
                                    [@ EXCEPT !.output = AddOutputLines(@, newLines)], now)]
             /\ hist' = [hist EXCEPT ![o] = @ \o newLines]
             /\ ev' = Event("data", sessionId, "ok")
     /\ UNCHANGED <<registry, proc, ctx, delTimers, cleanupDue, now, usedIds, closedEmits,
                    lim, held>>

\* the process of p exits; its onExit callback is delivered later
ProcessExit(p) ==
  /\ Serving
  /\ ~lim.quiet
  /\ proc[p] = "alive"
  /\ proc' = [proc EXCEPT ![p] = "exited"]
  /\ ev' = Event("exit", sess[p].id, "ok")
  /\ UNCHANGED <<registry, sess, ctx, delTimers, cleanupDue, now, usedIds, hist,
                 closedEmits, lim, held>>

\* _handleSessionExit(sessionId, code), called by the onExit handler of process p
OnExit(p, code) ==
  LET sessionId == sess[p].id
      o == registry[sessionId]
  IN /\ Serving
     /\ proc[p] = "exited"
     /\ code \in lim.codes
     /\ proc' = [proc EXCEPT ![p] = "done"]
     /\ IF o = 0
        THEN /\ ev' = Event("onExit", sessionId, "NotFound")
             /\ UNCHANGED <<sess, closedEmits>>
        ELSE /\ sess' = [sess EXCEPT ![o] = HandleSessionExit(@, code)]
             /\ closedEmits' = [closedEmits EXCEPT ![o] = Append(@, now)]
             /\ ev' = Event("onExit", sessionId, "ok")
     /\ UNCHANGED <<registry, ctx, delTimers, cleanupDue, now, usedIds, hist, lim, held>>

(***************************************************************************)
(* writeToSession, readSessionOutput, getSessionInfo, getAllSessions       *)
(***************************************************************************)
WriteToSession(sid, addNewline, throws) ==
  LET o == registry[sid]
      err == GetActiveSessionError(sid)
  IN Calling /\
     IF err # "ok"
     THEN /\ lim.observe
          /\ ev' = Event("write", sid, err)
          /\ UNCHANGED <<registry, sess, proc, ctx, delTimers, cleanupDue, now, usedIds,
                         hist, closedEmits, lim, held>>
     ELSE /\ throws \in PtyWriteThrows(o)
          /\ IF throws
             THEN /\ lim.observe
                  /\ ev' = Event("write", sid, "WriteFailed")
                  /\ UNCHANGED sess
             ELSE /\ sess' = [sess EXCEPT ![o].lastActivity = now]
                  /\ ev' = [Event("write", sid, "ok") EXCEPT
                              !.wrote = <<DataToWrite(Command, addNewline)>>]
          /\ UNCHANGED <<registry, proc, ctx, delTimers, cleanupDue, now, usedIds, hist,
                         closedEmits, lim, held>>

ReadSessionOutput(sid) ==
  /\ Calling
  /\ IF GetSessionError(sid) # "ok"
     THEN /\ lim.observe
          /\ ev' = Event("read", sid, GetSessionError(sid))
          /\ UNCHANGED held
     ELSE /\ lim.reads
          /\ ev' = [Event("read", sid, "ok") EXCEPT !.value = sess[registry[sid]].output]
          /\ held' = IF lim.keeps THEN ReadResult(registry[sid]) ELSE held
  /\ UNCHANGED <<registry, sess, proc, ctx, delTimers, cleanupDue, now, usedIds, hist,
                 closedEmits, lim>>

\* the caller empties the list it got from readSessionOutput (list.length = 0)
CallerChangesList ==
  /\ Serving
  /\ lim.keeps
  /\ held.set
  /\ HeldList # <<>>
  /\ IF held.alias
     THEN /\ sess' = [sess EXCEPT ![held.of].output = <<>>]
          /\ UNCHANGED held
     ELSE /\ held' = [held EXCEPT !.val = <<>>]
          /\ UNCHANGED sess
  /\ ev' = Event("mutate", sess[held.of].id, "ok")
  /\ UNCHANGED <<registry, proc, ctx, delTimers, cleanupDue, now, usedIds, hist,
                 closedEmits, lim>>

GetSessionInfo(sid) ==
  /\ Calling
  /\ lim.infos
  /\ IF GetSessionError(sid) # "ok"
     THEN lim.observe /\ ev' = Event("info", sid, GetSessionError(sid))
     ELSE ev' = [Event("info", sid, "ok") EXCEPT !.info = {BuildSessionInfo(registry[sid])}]
  /\ UNCHANGED <<registry, sess, proc, ctx, delTimers, cleanupDue, now, usedIds, hist,
                 closedEmits, lim, held>>

GetAllSessions ==
  /\ Calling
  /\ lim.infos
  /\ ev' = [Event("list", NoId, "ok") EXCEPT
              !.info = {BuildSessionInfo(o) : o \in RegisteredObjects}]
  /\ UNCHANGED <<registry, sess, proc, ctx, delTimers, cleanupDue, now, usedIds, hist,
                 closedEmits, lim, held>>

(***************************************************************************)
(* executeCommand and its two timers                                       *)
(***************************************************************************)
FreeCalls == {c \in Calls : c <= lim.execs /\ ctx[c].outcome = "none"}
FreeCall == CHOOSE c \in FreeCalls : \A d \in FreeCalls : c <= d

\* _createExecutionContext
CreateExecutionContext(o, timeout) ==
  [NoCtx EXCEPT !.o = o,
                !.startLength = Len(sess[o].output),
                !.lastLength = Len(sess[o].output),
                !.stableCount = 0,
                !.timeoutArmed = TRUE, !.timeoutDue = now + timeout,
                !.outcome = "pending",
                !.histStart = Len(hist[o]),
                !.histPolled = Len(hist[o]),
                !.histQuiet = 0]

\* executeCommand up to the return of the promise: _getActiveSession,
\* _createExecutionContext, _startCommandExecution
ExecuteCommand(sid, timeout, throws) ==
  LET o == registry[sid]
      err == GetActiveSessionError(sid)
      c == FreeCall
      context == CreateExecutionContext(o, timeout)
  IN Calling /\
     IF err # "ok"
     THEN /\ lim.observe
          /\ ev' = Event("execute", sid, err)
          /\ UNCHANGED <<registry, sess, proc, ctx, delTimers, cleanupDue, now, usedIds,
                         hist, closedEmits, lim, held>>
     ELSE /\ FreeCalls # {}
          /\ timeout \in lim.timeouts
          /\ now + timeout <= lim.time   \* the deadline lies within the explored time
          /\ throws \in PtyWriteThrows(o)
          /\ IF throws
             THEN \* the write throws inside the promise executor: the promise is
                  \* rejected, the timeout timer stays, no check is scheduled
                  /\ ctx' = [ctx EXCEPT ![c] = [context EXCEPT !.outcome = "WriteFailed",
                                                               !.histSettled = Len(hist[o])]]
                  /\ ev' = Event("execute", sid, "WriteFailed")
                  /\ UNCHANGED sess
             ELSE /\ ctx' = [ctx EXCEPT ![c] = [context EXCEPT !.pollArmed = TRUE,
                                                               !.pollDue = now + InitialDelay]]
                  /\ sess' = [sess EXCEPT ![o].lastActivity = now]
                  /\ ev' = [Event("execute", sid, "pending") EXCEPT
                              !.wrote = <<DataToWrite(Command, TRUE)>>]
          /\ UNCHANGED <<registry, proc, delTimers, cleanupDue, now, usedIds, hist,
                         closedEmits, lim, held>>

\* ToolExecutor._validateRequiredParams(args, ['command', 'cwd']): the
\* parameters that are missing ("" and <<>> stand for absent or empty)
MissingParams(command, cwd) ==
  (IF command = <<>> THEN {"command"} ELSE {}) \cup (IF cwd = "" THEN {"cwd"} ELSE {})

\* ToolExecutor.executeTerminalCommand (tm_execute) up to its await:
\* _validateRequiredParams, createSession(terminal_type, cwd), then
\* executeCommand(sessionId, command, timeout) on the new session. The rest of
\* the handler runs when the call of the execution context settles.
ExecuteTerminalCommand(command, type, cwd, timeout, spawnFails) ==
  LET terminalType == TerminalType(type)
      sessionId == RandomUUID
      pid == NextPid
      c == FreeCall
      context == CreateExecutionContext(pid, timeout)
      args == <<type, cwd, command>>
  IN /\ Calling
     /\ lim.tools
     /\ type \in lim.types
     /\ IF \/ MissingParams(command, cwd) # {}
           \/ InvalidWorkingDirectory(cwd)
           \/ ~HasShellPath(terminalType)
        THEN /\ lim.observe
             /\ ~spawnFails /\ timeout = MaxTimeout   \* neither is looked at
             /\ ev' = [Called("tm_execute", args, NoId, "InvalidArgument") EXCEPT
                         !.result = ToolFailure("InvalidArgument", now)]
             /\ UNCHANGED <<registry, sess, proc, ctx, delTimers, cleanupDue, now, usedIds,
                            hist, closedEmits, lim, held>>
        ELSE /\ SessionIds \ usedIds # {}
             /\ \E p \in 1..lim.procs : proc[p] = "none"
             /\ IF spawnFails
                THEN /\ lim.observe
                     /\ timeout = MaxTimeout               \* not looked at
                     /\ ev' = [Called("tm_execute", args, NoId, "SpawnFailed") EXCEPT
                                 !.result = ToolFailure("SpawnFailed", now)]
                     /\ UNCHANGED <<registry, sess, proc, ctx, delTimers, cleanupDue, now,
                                    usedIds, hist, closedEmits, lim, held>>
                ELSE /\ FreeCalls # {}
                     /\ timeout \in lim.timeouts
                     /\ now + timeout <= lim.time
                     /\ proc' = [proc EXCEPT ![pid] = "alive"]
                     /\ sess' = [sess EXCEPT
                                   ![pid] = CreateSessionData(sessionId, terminalType, now)]
                     /\ registry' = [registry EXCEPT ![sessionId] = pid]
                     /\ usedIds' = usedIds \cup {sessionId}
                     /\ ctx' = [ctx EXCEPT ![c] = [context EXCEPT
                                                     !.pollArmed = TRUE,
                                                     !.pollDue = now + InitialDelay,
                                                     !.tool = <<command>>]]
                     /\ ev' = [Called("tm_execute", args, sessionId, "pending") EXCEPT
                                 !.wrote = <<DataToWrite(command, TRUE)>>]
                     /\ UNCHANGED <<delTimers, cleanupDue, now, hist, closedEmits, lim, held>>

\* The rest of executeTerminalCommand, run when the executeCommand it awaits
\* settles: the result executeTool returns (none when the call was not made by
\* tm_execute or had settled before).
ExecuteToolSettled(context, outcome, output) ==
  IF context.tool = <<>> \/ context.outcome # "pending" THEN NoResult
  ELSE IF outcome = "resolved"
       THEN CreateToolResult(TRUE, [sessionId |-> sess[context.o].id,
                                    command |-> context.tool[1],
                                    output |-> FilterBlank(output)], now)
       ELSE ToolFailure(outcome, now)

\* _updateStabilityCounter: the new stableCount
StableCountAfter(context, currentLength) ==
  IF currentLength = context.lastLength THEN context.stableCount + 1 ELSE 0

\* _isCommandComplete, given the updated stability counter
IsCommandComplete(stableCount, type, currentOutput) ==
  IF stableCount < 1 \/ Len(currentOutput) = 0
  THEN FALSE
  ELSE HasPrompt(type, StripAnsi(JoinLines(LastTwo(currentOutput))))

\* a promise settles once: the outcome after resolve or reject is called
Settle(outcome, with) == IF outcome = "pending" THEN with ELSE outcome

\* _checkCommandCompletion, run by the check timer of call c
CheckCommandCompletion(c) ==
  LET context == ctx[c]
      session == sess[context.o]
      currentOutput == SliceFrom(session.output, context.startLength)
      currentLength == Len(session.output)
      stableCount == StableCountAfter(context, currentLength)
      updated == [context EXCEPT !.stableCount = stableCount, !.lastLength = currentLength,
                                 !.histPolled = Len(hist[context.o]),
                                 !.histQuiet = IF Len(hist[context.o]) = context.histPolled
                                               THEN (IF @ < 2 THEN @ + 1 ELSE 2) ELSE 0]
      complete == IsCommandComplete(stableCount, session.type, currentOutput)
  IN /\ Serving
     /\ context.pollArmed
     /\ context.pollDue <= now
     /\ IF complete
        THEN ctx' = [ctx EXCEPT ![c] = [updated EXCEPT
                       !.pollArmed = FALSE,
                       !.timeoutArmed = FALSE,
                       !.outcome = Settle(context.outcome, "resolved"),
                       !.result = IF context.outcome = "pending" THEN currentOutput ELSE @,
                       !.histSettled = IF context.outcome = "pending"
                                       THEN Len(hist[context.o]) ELSE @]]
        ELSE ctx' = [ctx EXCEPT ![c] = [updated EXCEPT !.pollDue = now + PollInterval]]
     /\ ev' = [Event("poll", session.id, ctx'[c].outcome) EXCEPT
                 !.result = IF complete
                            THEN ExecuteToolSettled(context, "resolved", currentOutput)
                            ELSE NoResult]
     /\ UNCHANGED <<registry, sess, proc, delTimers, cleanupDue, now, usedIds, hist,
                    closedEmits, lim, held>>

\* mutant of the timeout callback: it also marks the session closed
ExecutionTimeoutClosesSession(c) ==
  /\ Serving
  /\ ctx[c].timeoutArmed
  /\ ctx[c].timeoutDue <= now
  /\ ctx' = [ctx EXCEPT ![c].timeoutArmed = FALSE,
                        ![c].outcome = Settle(@, "TimedOut"),
                        ![c].histSettled = IF ctx[c].outcome = "pending"
                                           THEN Len(hist[ctx[c].o]) ELSE @]
  /\ sess' = [sess EXCEPT ![ctx[c].o].status = "closed"]
  /\ ev' = Event("timeout", sess[ctx[c].o].id, ctx'[c].outcome)
  /\ UNCHANGED <<registry, proc, delTimers, cleanupDue, now, usedIds, hist,
                 closedEmits, lim, held>>

\* mutant of the timeout callback: the timer fires without rejecting
ExecutionTimeoutNoReject(c) ==
  /\ Serving
  /\ ctx[c].timeoutArmed
  /\ ctx[c].timeoutDue <= now
  /\ ctx' = [ctx EXCEPT ![c].timeoutArmed = FALSE]
  /\ ev' = Event("timeout", sess[ctx[c].o].id, ctx'[c].outcome)
  /\ UNCHANGED <<registry, sess, proc, delTimers, cleanupDue, now, usedIds, hist,
                 closedEmits, lim, held>>

\* the timeout timer of call c fires: reject(new Error('超时: ...'))
ExecutionTimeout(c) ==
  /\ Serving
  /\ ctx[c].timeoutArmed
  /\ ctx[c].timeoutDue <= now
  /\ ctx' = [ctx EXCEPT ![c].timeoutArmed = FALSE,
                        ![c].outcome = Settle(@, "TimedOut"),
                        ![c].histSettled = IF ctx[c].outcome = "pending"
                                           THEN Len(hist[ctx[c].o]) ELSE @]
  /\ ev' = [Event("timeout", sess[ctx[c].o].id, ctx'[c].outcome) EXCEPT
              !.result = ExecuteToolSettled(ctx[c], "TimedOut", <<>>)]
  /\ UNCHANGED <<registry, sess, proc, delTimers, cleanupDue, now, usedIds, hist,
                 closedEmits, lim, held>>

(***************************************************************************)
(* closeAllSessions and the delayed deletions it schedules                 *)
(***************************************************************************)
\* mutant of _closeSessionsBatch: a kill that throws ends the batch
ClosedByBatchStopAtThrow(active, throwing) == IF throwing = {} THEN active ELSE {}

\* _closeSessionsBatch: the sessions for which _closeSingleSession does not
\* throw are reported closed, the others failed
ClosedByBatch(active, throwing) == active \ throwing
FailedByBatch(active, throwing) == active \cap throwing

\* _scheduleSessionDeletion
ScheduleSessionDeletion(sessionId) == [sid |-> sessionId, due |-> now + GraceDelay]

\* _createCloseResult(...).success as an outcome
CloseResult(failed) == IF failed = {} THEN "ok" ELSE "PartialFailure"

\* closeAllSessions: what it does to the sessions, the processes and the
\* timers. throwing: the sessions whose kill() throws; rejecting: the sessions
\* for which a sessionClosed listener throws out of emit, after the kill and
\* the status change and before the deletion is scheduled.
CloseSessions(throwing, rejecting) ==
  LET active == ActiveSessions
      closed == ClosedByBatch(active, throwing \cup rejecting)
      closedObjects == {registry[i] : i \in active \ throwing}
  IN /\ Calling
     /\ ~lim.quiet
     /\ throwing \subseteq active
     /\ rejecting \subseteq active \ throwing
     /\ rejecting # {} => (lim.observe /\ lim.tools)
     /\ active = {} => lim.observe
     /\ sess' = [o \in Pids |-> IF o \in closedObjects THEN CloseSingleSession(sess[o])
                                ELSE sess[o]]
     /\ proc' = [o \in Pids |-> IF o \in closedObjects THEN Kill(proc[o], FALSE) ELSE proc[o]]
     /\ closedEmits' = [o \in Pids |-> IF o \in closedObjects
                                       THEN Append(closedEmits[o], now)
                                       ELSE closedEmits[o]]
     /\ delTimers' = delTimers \cup {ScheduleSessionDeletion(i) : i \in closed}
     /\ UNCHANGED <<registry, ctx, cleanupDue, now, usedIds, hist, lim, held>>

CloseAllSessions(throwing, rejecting) ==
  LET closed == ClosedByBatch(ActiveSessions, throwing \cup rejecting)
      failed == FailedByBatch(ActiveSessions, throwing \cup rejecting)
  IN /\ CloseSessions(throwing, rejecting)
     /\ ev' = [Event("closeAll", NoId, CloseResult(failed)) EXCEPT
                 !.closed = closed, !.failed = failed]

\* the timer of _scheduleSessionDeletion fires: this.sessions.delete(sessionId)
SessionDeletion(t) ==
  /\ Serving
  /\ t \in delTimers
  /\ t.due <= now
  /\ registry' = [registry EXCEPT ![t.sid] = 0]
  /\ delTimers' = delTimers \ {t}
  /\ ev' = [Event("delete", t.sid, "ok") EXCEPT
              !.removed = IF registry[t.sid] # 0 THEN {t.sid} ELSE {}]
  /\ UNCHANGED <<sess, proc, ctx, cleanupDue, now, usedIds, hist, closedEmits, lim, held>>

(***************************************************************************)
(* cleanup, run by the setInterval timer                                   *)
(***************************************************************************)
\* _identifySessionsForCleanup: the ids to delete
IdentifySessionsForCleanup(t) ==
  {i \in Registered : ShouldCleanupSession(sess[registry[i]], t)}

\* _killActiveSession: the process state afterwards
KillActiveSession(s, st, throws) == IF s.status = "active" THEN Kill(st, throws) ELSE st

\* _cleanupSessions
CleanupSessions(reg, sessionIds) == [i \in SessionIds |-> IF i \in sessionIds THEN 0 ELSE reg[i]]

\* mutant of the sweep: a session whose kill() throws is not deleted
SweptSessionsUnlessThrown(due, throwing) == {i \in due : registry[i] \notin throwing}

\* the ids the sweep deletes, of the ids due: _killActiveSession swallows the
\* error of kill(), so the loop pushes every due id and goes on
SweptSessions(due, throwing) == due

\* cleanup(): what it does to the processes and the registry
CleanupNow(throwing) ==
  LET due == IdentifySessionsForCleanup(now)
      toDelete == SweptSessions(due, throwing)
      objects == {registry[i] : i \in due}
  IN /\ Serving
     /\ throwing \subseteq {o \in objects : sess[o].status = "active"}
     /\ proc' = [o \in Pids |-> IF o \in objects
                                THEN KillActiveSession(sess[o], proc[o], o \in throwing)
                                ELSE proc[o]]
     /\ registry' = CleanupSessions(registry, toDelete)
     /\ UNCHANGED <<sess, ctx, delTimers, now, usedIds, hist, closedEmits, lim, held>>

\* cleanup(), run by the setInterval timer
Cleanup(throwing) ==
  /\ cleanupDue <= now
  /\ CleanupNow(throwing)
  /\ cleanupDue' = cleanupDue + CleanupInterval
  /\ ev' = [Event("cleanup", NoId, "ok") EXCEPT !.removed = IdentifySessionsForCleanup(now)]

\* ServerOrchestrator.cleanup, run by the handler of SIGINT and SIGTERM:
\* terminalManager.cleanup(), after which the server process exits
ServerCleanup(throwing) ==
  /\ lim.stops
  /\ CleanupNow(throwing)
  /\ ev' = [Event("shutdown", NoId, "ok") EXCEPT !.removed = IdentifySessionsForCleanup(now)]
  /\ UNCHANGED cleanupDue

(***************************************************************************)
(* ToolExecutor.executeTool: the tool handlers inside its try/catch        *)
(***************************************************************************)
\* tm_read: executeReadSession
ExecuteReadSession(sid) ==
  LET err == IF sid = NoId THEN "InvalidArgument" ELSE GetSessionError(sid)
      o == registry[sid]
  IN /\ Calling
     /\ lim.tools
     /\ IF err # "ok"
        THEN /\ lim.observe
             /\ ev' = [Called("tm_read", <<sid>>, sid, err) EXCEPT !.result = ToolFailure(err, now)]
        ELSE ev' = [Called("tm_read", <<sid>>, sid, "ok") EXCEPT
                      !.result = CreateToolResult(TRUE,
                                    [sessionId |-> sid,
                                     output |-> FilterBlank(ReadResult(o).val),
                                     sessionInfo |-> BuildSessionInfo(o)], now)]
     /\ UNCHANGED <<registry, sess, proc, ctx, delTimers, cleanupDue, now, usedIds, hist,
                    closedEmits, lim, held>>

\* tm_write: executeWriteSession; given: args.input is not undefined
ExecuteWriteSession(sid, given, addNewline, throws) ==
  LET err == IF sid = NoId \/ ~given THEN "InvalidArgument" ELSE GetActiveSessionError(sid)
      o == registry[sid]
      args == <<sid, given, addNewline>>
  IN /\ Calling
     /\ lim.tools
     /\ IF err # "ok"
        THEN /\ lim.observe
             /\ ~throws /\ addNewline                    \* neither is looked at
             /\ ev' = [Called("tm_write", args, sid, err) EXCEPT !.result = ToolFailure(err, now)]
             /\ UNCHANGED sess
        ELSE /\ throws \in PtyWriteThrows(o)
             /\ IF throws
                THEN /\ lim.observe
                     /\ ev' = [Called("tm_write", args, sid, "WriteFailed") EXCEPT
                                 !.result = ToolFailure("WriteFailed", now)]
                     /\ UNCHANGED sess
                ELSE /\ sess' = [sess EXCEPT ![o].lastActivity = now]
                     /\ ev' = [Called("tm_write", args, sid, "ok") EXCEPT
                                 !.wrote = <<DataToWrite(Command, addNewline)>>,
                                 !.result = CreateToolResult(TRUE,
                                              [sessionId |-> sid, input |-> Command], now)]
     /\ UNCHANGED <<registry, proc, ctx, delTimers, cleanupDue, now, usedIds, hist,
                    closedEmits, lim, held>>

\* Array.from(this.sessions.values()).map(_buildSessionInfo), the sessions
\* taken in the order of their ids
RECURSIVE SessionInfosFrom(_)
SessionInfosFrom(i) ==
  IF i > MaxIds THEN <<>>
  ELSE (IF registry[i] # 0 THEN <<BuildSessionInfo(registry[i])>> ELSE <<>>)
       \o SessionInfosFrom(i + 1)

\* tm_list: executeListSessions
ExecuteListSessions ==
  LET sessions == SessionInfosFrom(1)
  IN /\ Calling
     /\ lim.tools
     /\ ev' = [Event("tm_list", NoId, "ok") EXCEPT
                 !.result = CreateToolResult(TRUE,
                              [sessions |-> sessions, totalSessions |-> Len(sessions)], now)]
     /\ UNCHANGED <<registry, sess, proc, ctx, delTimers, cleanupDue, now, usedIds, hist,
                    closedEmits, lim, held>>

\* mutant of the result of tm_close: success is always true
CloseSessionsResultAlwaysTrue(closed, failed, t) ==
  CreateToolResult(TRUE,
     [message |-> <<Cardinality(closed), Cardinality(failed)>>,
      closedSessions |-> closed, failedSessions |-> failed,
      totalClosed |-> Cardinality(closed), totalFailed |-> Cardinality(failed)], t)

\* the result of tm_close, from the result of closeAllSessions
CloseSessionsResult(closed, failed, t) ==
  CreateToolResult(CloseResult(failed) = "ok",
     [message |-> <<Cardinality(closed), Cardinality(failed)>>,
      closedSessions |-> closed, failedSessions |-> failed,
      totalClosed |-> Cardinality(closed), totalFailed |-> Cardinality(failed)], t)

\* tm_close: executeCloseSessions
ExecuteCloseSessions(throwing, rejecting) ==
  LET closed == ClosedByBatch(ActiveSessions, throwing \cup rejecting)
      failed == FailedByBatch(ActiveSessions, throwing \cup rejecting)
  IN /\ lim.tools
     /\ CloseSessions(throwing, rejecting)
     /\ ev' = [Event("tm_close", NoId, CloseResult(failed)) EXCEPT
                 !.closed = closed, !.failed = failed,
                 !.result = CloseSessionsResult(closed, failed, now)]

\* the names in the toolExecutors table of executeTool
ToolNames == {"tm_execute", "tm_read", "tm_write", "tm_list", "tm_close"}
ToolNameArgs == ToolNames \cup {"tm_open"}

\* executeTool(name, args) with a name that has no executor
ExecuteUnknownTool(name) ==
  /\ Calling
  /\ lim.tools
  /\ name \notin ToolNames
  /\ ev' = [Called(name, <<>>, NoId, "UnknownTool") EXCEPT
              !.result = ToolFailure("UnknownTool", now)]
  /\ UNCHANGED <<registry, sess, proc, ctx, delTimers, cleanupDue, now, usedIds, hist,
                 closedEmits, lim, held>>

(***************************************************************************)
(* Time: the clock advances when no timer is due                           *)
(***************************************************************************)
TimerDue ==
  \/ \E c \in Calls : ctx[c].pollArmed /\ ctx[c].pollDue <= now
  \/ \E c \in Calls : ctx[c].timeoutArmed /\ ctx[c].timeoutDue <= now
  \/ \E t \in delTimers : t.due <= now
  \/ cleanupDue <= now

Tick ==
  /\ Serving
  /\ now < lim.time
  /\ ~TimerDue
  /\ now' = now + 1
  /\ ev' = Event("tick", NoId, "ok")
  /\ UNCHANGED <<registry, sess, proc, ctx, delTimers, cleanupDue, usedIds, hist,
                 closedEmits, lim, held>>

\* the steps of a running server: calls, callbacks of the processes, timers
Serve ==
  \/ \E type \in TypeArgs, cwd \in CwdArgs, id \in IdArgs, spawnFails \in BOOLEAN :
        CreateSession(type, cwd, id, spawnFails)
  \/ \E command \in CommandArgs, type \in TypeArgs, cwd \in CwdArgs, timeout \in Timeouts,
        spawnFails \in BOOLEAN :
        ExecuteTerminalCommand(command, type, cwd, timeout, spawnFails)
  \/ \E p \in Pids, data \in Chunks : AppendOutput(p, data)
  \/ \E p \in Pids : ProcessExit(p)
  \/ \E p \in Pids, code \in ExitCodes : OnExit(p, code)
  \/ \E sid \in SessionIds, addNewline \in BOOLEAN, throws \in BOOLEAN :
        WriteToSession(sid, addNewline, throws)
  \/ \E sid \in SessionIds : ReadSessionOutput(sid)
  \/ CallerChangesList
  \/ \E sid \in SessionIds : GetSessionInfo(sid)
  \/ GetAllSessions
  \/ \E sid \in SessionIds, timeout \in Timeouts, throws \in BOOLEAN :
        ExecuteCommand(sid, timeout, throws)
  \/ \E c \in Calls : CheckCommandCompletion(c)
  \/ \E c \in Calls : ExecutionTimeout(c)
  \/ \E throwing \in SUBSET SessionIds, rejecting \in SUBSET SessionIds :
        CloseAllSessions(throwing, rejecting)
  \/ \E t \in delTimers : SessionDeletion(t)
  \/ \E throwing \in SUBSET Pids : Cleanup(throwing)
  \/ \E sid \in IdArgs : ExecuteReadSession(sid)
  \/ \E sid \in IdArgs, given \in BOOLEAN, addNewline \in BOOLEAN, throws \in BOOLEAN :
        ExecuteWriteSession(sid, given, addNewline, throws)
  \/ ExecuteListSessions
  \/ \E throwing \in SUBSET SessionIds, rejecting \in SUBSET SessionIds :
        ExecuteCloseSessions(throwing, rejecting)
  \/ \E name \in ToolNameArgs : ExecuteUnknownTool(name)
  \/ Tick

\* the steps of the server and of its callers, and its shutdown
Next ==
  \/ Serve
  \/ \E throwing \in SUBSET Pids : ServerCleanup(throwing)

Spec == Init /\ [][Next]_vars

\* a step of the event loop's timer phase: a due timer callback runs, or the
\* clock advances when none is due
TimerStep ==
  \/ Tick
  \/ \E c \in Calls : CheckCommandCompletion(c)
  \/ \E c \in Calls : ExecutionTimeout(c)
  \/ \E t \in delTimers : SessionDeletion(t)
  \/ \E throwing \in SUBSET Pids : Cleanup(throwing)

\* ENABLED <<TimerStep>>_vars, written out: a timer is due or the clock can advance
TimerStepEnabled == TimerDue \/ now < lim.time

\* The event loop keeps running its timers: WF_vars(TimerStep), with its
\* enabling condition written out.
TimersRun == []<>(~TimerStepEnabled) \/ []<><<TimerStep>>_vars

\* the runs of a server that is not shut down, its timers running
FairSpec == FairInit /\ [][Serve]_vars /\ TimersRun

(***************************************************************************)
(* Properties                                                              *)
(***************************************************************************)
Min(a, b) == IF a <= b THEN a ELSE b
LastLines(s, n) == SubSeq(s, Len(s) - n + 1, Len(s))
Objects == {o \in Pids : sess[o].status # "none"}
IsPromptLine(type, line) == HasPrompt(type, StripAnsi(line))

\* C1: when the shell emitted N output lines and then a prompt line after the
\* command was written, the resolving executeCommand returns exactly the N
\* lines, without the prompt line.
C1_ReturnsLinesWithoutPrompt ==
  [][\A c \in Calls :
       (ctx[c].outcome = "pending" /\ ctx'[c].outcome = "resolved") =>
         LET o == ctx[c].o
             emitted == SliceFrom(hist[o], ctx[c].histStart)
             n == Len(emitted) - 1
         IN (/\ Len(emitted) >= 1
             /\ IsPromptLine(sess[o].type, emitted[Len(emitted)])
             /\ \A k \in 1..n : ~IsPromptLine(sess[o].type, emitted[k]))
            => ctx'[c].result = SubSeq(emitted, 1, n)]_vars

\* C2: the buffer of a session holds exactly the most recent
\* min(N, maxOutputLines) of the N lines appended to it, in their order.
C2_BufferIsMostRecentLines ==
  \A o \in Objects :
     sess[o].output = LastLines(hist[o], Min(Len(hist[o]), MaxOutputLines))

\* C2 witness: more lines than the capacity were appended, the last by a chunk
\* that arrived when the buffer was already full
C2_Witness ==
  \E o \in Objects :
     /\ ev.op = "data" /\ ev.outcome = "ok"
     /\ Len(hist[o]) = MaxOutputLines + 2
     /\ Len(sess[o].output) = MaxOutputLines

\* C3: no session ever buffers more than maxOutputLines lines.
C3_BufferBounded == \A o \in Objects : Len(sess[o].output) <= MaxOutputLines

\* C3 witness: a chunk of several lines was appended to a full buffer
C3_Witness ==
  \E o \in Objects :
     /\ ev.op = "data" /\ ev.outcome = "ok"
     /\ Len(hist[o]) >= MaxOutputLines + 2
     /\ hist[o][Len(hist[o])] = <<"b", ">">>
     /\ hist[o][Len(hist[o]) - 1] = <<"a">>
     /\ Len(sess[o].output) = MaxOutputLines

\* C4: the status of a session never goes from Closed back to Active.
C4_StatusMonotonic ==
  [][\A o \in Pids : sess[o].status = "closed" => sess'[o].status = "closed"]_vars

\* C4 witness: a session closed by closeAllSessions has since received the
\* onExit callback of its process, and is still closed
C4_Witness ==
  \E o \in Objects :
     /\ sess[o].status = "closed"
     /\ Len(closedEmits[o]) = 2
     /\ proc[o] = "done"
     /\ ev.op = "onExit"

\* C5: writeToSession and executeCommand on a registered Closed session fail
\* with SessionClosed, write nothing to the pty, start no check loop and
\* change nothing.
C5_ClosedSessionRejectsWrites ==
  [][(/\ ev'.op \in {"write", "execute"}
      /\ registry[ev'.sid] # 0
      /\ sess[registry[ev'.sid]].status = "closed")
     => (/\ ev'.outcome = "SessionClosed"
         /\ ev'.wrote = <<>>
         /\ UNCHANGED <<registry, sess, proc, ctx, delTimers, hist>>)]_vars

\* C5 witness: executeCommand was called on a registered, closed session
C5_Witness ==
  /\ ev.op = "execute"
  /\ ev.outcome = "SessionClosed"
  /\ registry[ev.sid] # 0
  /\ sess[registry[ev.sid]].status = "closed"

\* C6: a TimedOut rejection of executeCommand leaves the session as it is
\* (status, registry entry, process), output emitted afterwards is still
\* appended to its buffer, and a later readSessionOutput returns the buffer
\* with the lines that arrived after the timeout.
C6_TimeoutKeepsSession ==
  [][\A c \in Calls :
       LET o == ctx[c].o
       IN /\ (ctx[c].outcome = "pending" /\ ctx'[c].outcome = "TimedOut")
               => UNCHANGED <<registry, sess, proc, hist, delTimers>>
          /\ (/\ ctx[c].outcome = "TimedOut"
              /\ ev'.op = "data" /\ ev'.outcome = "ok"
              /\ registry[ev'.sid] = o)
               => /\ Len(hist'[o]) > Len(hist[o])
                  /\ sess'[o].output =
                       LastLines(hist'[o], Min(Len(hist'[o]), MaxOutputLines))
          /\ (/\ ctx[c].outcome = "TimedOut"
              /\ ev'.op = "read"
              /\ registry[ev'.sid] = o)
               => /\ ev'.outcome = "ok"
                  /\ ev'.value = LastLines(hist[o], Min(Len(hist[o]), MaxOutputLines))]_vars

\* C6 witness: a read of a still active session after its executeCommand timed
\* out returns lines that were appended after the timeout fired
C6_Witness ==
  \E c \in Calls :
     /\ ctx[c].outcome = "TimedOut"
     /\ ev.op = "read" /\ ev.outcome = "ok"
     /\ registry[ev.sid] = ctx[c].o
     /\ sess[ctx[c].o].status = "active"
     /\ Len(hist[ctx[c].o]) > ctx[c].histSettled
     /\ ev.value = sess[ctx[c].o].output
     /\ Len(ev.value) > 0

\* C7: a cleanup sweep removes every session whose lastActivity is older than
\* sessionTimeout and keeps, unchanged, every Active session whose
\* lastActivity is within sessionTimeout.
C7_SweepReapsIdleKeepsActive ==
  [][ev'.op = "cleanup" =>
       \A i \in Registered :
          LET o == registry[i]
          IN /\ (now - sess[o].lastActivity) > SessionTimeout => registry'[i] = 0
             /\ (sess[o].status = "active" /\ (now - sess[o].lastActivity) <= SessionTimeout)
                  => /\ registry'[i] = o
                     /\ sess'[o] = sess[o]
                     /\ proc'[o] = proc[o]]_vars

\* C7 witness: a sweep removed an idle Active session and kept another Active one
C7_Witness ==
  /\ ev.op = "cleanup"
  /\ \E o \in Objects :
        /\ sess[o].id \in ev.removed
        /\ sess[o].status = "active"
        /\ (now - sess[o].lastActivity) > SessionTimeout
        /\ registry[sess[o].id] = 0
  /\ \E i \in Registered :
        /\ sess[registry[i]].status = "active"
        /\ (now - sess[registry[i]].lastActivity) <= SessionTimeout

\* C8: createSession never returns an id that is registered or was used by an
\* earlier session, also when the caller passes the optional id argument
\* (as stated; createSession(null, cwd, id) called twice with one id refutes it).
C8_CreatedIdIsFresh ==
  [][(ev'.op = "create" /\ ev'.outcome = "ok") => ev'.sid \notin usedIds]_vars

C10_ActiveHasProcessClosedHasNone ==
  \A o \in RegisteredObjects :
     /\ sess[o].status = "active" => proc[o] = "alive"
     /\ sess[o].status = "closed" => proc[o] # "alive"

\* C11 as stated: a session is closed once; when closeAllSessions kills it and
\* its process's onExit callback is delivered too, the second signal changes
\* nothing and the session-closed notification is emitted once (refuted:
\* _handleSessionExit runs on the Closed session, writes exitCode and emits
\* sessionClosed a second time).
C11_ClosedOnce == \A o \in Pids : Len(closedEmits[o]) <= 1

\* the time at which session object o became Closed
ClosedAt(o) == Head(closedEmits[o])

\* C12 as stated: a Closed session stays in the registry until the grace delay
\* has elapsed since it became Closed; no sweep or other step removes its
\* entry earlier (refuted: cleanup deletes every Closed session at once).
C12_ClosedKeptForGraceDelay ==
  [][\A i \in Registered :
       LET o == registry[i]
       IN (sess[o].status = "closed" /\ registry'[i] = 0) => now >= ClosedAt(o) + GraceDelay]_vars

Killed(o) ==
  /\ proc[o] # "alive"
  /\ \/ sess[o].status = "closed" /\ sess[o].exitCode = <<>>
     \/ sess[o].status = "active" /\ registry[sess[o].id] = 0

\* C14 as stated: an executeCommand that is still polling when its session is
\* killed by closeAllSessions or by the reaper ends with SessionClosed or
\* TimedOut and never reports success (refuted: the poll does not look at the
\* session's status and resolves when the buffered output ends in a prompt).
C14_KilledCallDoesNotSucceed ==
  [][\A c \in Calls :
       (ctx[c].outcome = "pending" /\ Killed(ctx[c].o))
          => ctx'[c].outcome \in {"pending", "TimedOut", "SessionClosed"}]_vars

\* C15 as stated: a writeToSession on a registered session whose process has
\* exited fails with SessionClosed, also before the onExit callback is
\* delivered (refuted: in that window the status is still active, so the
\* input is handed to ptyProcess.write and the call reports success or fails
\* with the error write throws).
C15_WriteAfterExitFails ==
  [][(/\ ev'.op = "write"
      /\ registry[ev'.sid] # 0
      /\ proc[registry[ev'.sid]] # "alive")
        => ev'.outcome = "SessionClosed"]_vars

\* C16: closeAllSessions attempts every session Active at the call and goes on
\* after a kill that throws: totalClosed + totalFailed is the number of Active
\* sessions, success is true exactly when totalFailed is 0, every session
\* counted as closed has status Closed afterwards, and the call returns a
\* result (ok or PartialFailure).
C16_CloseAllReportsEverySession ==
  [][ev'.op = "closeAll" =>
       /\ Cardinality(ev'.closed) + Cardinality(ev'.failed) = Cardinality(ActiveSessions)
       /\ ev'.closed \cup ev'.failed = ActiveSessions
       /\ ev'.outcome \in {"ok", "PartialFailure"}
       /\ (ev'.outcome = "ok") <=> (Cardinality(ev'.failed) = 0)
       /\ \A i \in ev'.closed : sess'[registry[i]].status = "closed"]_vars

\* C16 witness: closeAllSessions with two Active sessions, one kill throwing:
\* one closed, one failed, success false
C16_Witness ==
  /\ ev.op = "closeAll"
  /\ ev.outcome = "PartialFailure"
  /\ Cardinality(ev.closed) = 1
  /\ Cardinality(ev.failed) = 1
  /\ \A i \in ev.closed : sess[registry[i]].status = "closed"
  /\ \A i \in ev.failed : sess[registry[i]].status = "active"

\* C17: a create request that is invalid (working directory missing or not
\* absolute, unknown terminal type, or a required field of tm_execute missing)
\* fails with InvalidArgument, no process is spawned and the registry and the
\* sessions are unchanged.
C17_InvalidCreateRejected ==
  [][(/\ ev'.op \in {"create", "tm_execute"}
      /\ \/ ev'.args[2] # "C:\\Users\\test"
         \/ ev'.args[1] \notin {"", "powershell", "cmd"}
         \/ (ev'.op = "tm_execute" /\ ev'.args[3] = <<>>))
        => /\ ev'.outcome = "InvalidArgument"
           /\ UNCHANGED <<registry, sess, proc, ctx, usedIds, hist>>]_vars

\* C17 witness: tm_execute without a command is rejected while a session is
\* registered
C17_Witness ==
  /\ ev.op = "tm_execute"
  /\ ev.outcome = "InvalidArgument"
  /\ ev.args[2] = "C:\\Users\\test"
  /\ ev.args[3] = <<>>
  /\ Registered # {}

C19_UnknownIdNotFound ==
  [][(ev'.op \in {"read", "info", "write", "execute"} /\ registry[ev'.sid] = 0)
        => /\ ev'.outcome = "NotFound"
           /\ ev'.value = <<>> /\ ev'.info = {} /\ ev'.wrote = <<>>
           /\ UNCHANGED <<registry, sess, proc, ctx, delTimers, hist>>]_vars

\* C19 witness: a read of an id whose entry was removed from the registry
C19_Witness ==
  /\ ev.op = "read"
  /\ ev.outcome = "NotFound"
  /\ ev.sid \in usedIds
  /\ registry[ev.sid] = 0
  /\ \E o \in Objects : sess[o].id = ev.sid /\ Len(sess[o].output) > 0

\* C20: the list readSessionOutput returned is a copy: no later step of the
\* manager (append, front-trimming, close, sweep) changes the lines of a list
\* a caller holds, and a caller changing its list changes no session's buffer.
C20_ReadReturnsCopy ==
  [][/\ (held.set /\ held' = held) => HeldList' = HeldList
     /\ ev'.op = "mutate" => (sess' = sess /\ HeldList' = <<>>)]_vars

\* C20 witness: the caller holds a list read before the buffer was appended to
\* and front-trimmed; the list still starts with a line the buffer has dropped
C20_Witness ==
  /\ held.set
  /\ ev.op = "data"
  /\ Len(HeldList) > 0
  /\ Len(hist[held.of]) > MaxOutputLines
  /\ Len(sess[held.of].output) = MaxOutputLines
  /\ HeldList # sess[held.of].output
  /\ HeldList[1] = hist[held.of][1]

\* the steps in which executeTool returns: a tool handler that ran to its end
\* or threw, or the settling of the executeCommand that tm_execute awaits
ToolReturns ==
  \/ ev'.op \in ToolNameArgs /\ ev'.outcome # "pending"
  \/ \E c \in Calls : /\ ctx[c].tool # <<>>
                       /\ ctx[c].outcome = "pending"
                       /\ ctx'[c].outcome # "pending"

\* the outcome of the operation under the tool call that returns
ToolOutcome ==
  IF ev'.op \in ToolNameArgs THEN ev'.outcome
  ELSE IF ev'.outcome = "resolved" THEN "ok" ELSE ev'.outcome

C24_LastActivityFrame ==
  [][\A o \in Objects :
       LET on == ev'.sid # NoId /\ registry[ev'.sid] = o
           writes == /\ ev'.op \in {"write", "tm_write", "execute"}
                     /\ ev'.outcome \in {"ok", "pending"}
                     /\ on
           appends == ev'.op = "data" /\ ev'.outcome = "ok" /\ on
       IN /\ sess'[o].lastActivity >= sess[o].lastActivity
          /\ (writes \/ appends) => sess'[o].lastActivity = now
          /\ ~(writes \/ appends) => sess'[o].lastActivity = sess[o].lastActivity
          /\ (writes /\ ev'.op # "execute") => ev'.wrote # <<>>]_vars

\* C24 witness: a write that failed on a closed session left the lastActivity
\* that an earlier append had set, and the clock has advanced since
C24_Witness ==
  /\ ev.op = "write" /\ ev.outcome = "SessionClosed"
  /\ \E o \in Objects :
        /\ registry[ev.sid] = o
        /\ Len(hist[o]) > 0
        /\ sess[o].lastActivity > 0
        /\ sess[o].lastActivity < now

\* C25 as stated: a write, an output append, a process exit, or the success,
\* timeout or failure of an executeCommand on one session changes no other
\* session object and no registry entry (refuted: the callbacks of a process
\* reach the session registered under its id, which under a reused id is
\* another session).
C25_FaultStaysInSession ==
  [][\A a \in Pids :
       (\/ /\ ev'.op \in {"write", "tm_write", "execute"}
           /\ ev'.sid # NoId
           /\ registry[ev'.sid] = a
        \/ \E data \in Chunks : AppendOutput(a, data)
        \/ ProcessExit(a)
        \/ \E code \in ExitCodes : OnExit(a, code)
        \/ \E c \in Calls : /\ ctx[c].o = a
                             /\ (CheckCommandCompletion(c) \/ ExecutionTimeout(c)))
          => /\ \A o \in Pids \ {a} : sess'[o] = sess[o]
             /\ registry' = registry]_vars

\* C26: while an executeCommand on one session is waiting, calls on other
\* sessions are not blocked: whenever callers make calls, a createSession (if
\* a process and an id are left), a write, a read and another executeCommand
\* (if a call is left) on every other Active session with a live process, and
\* a list, can be made at once; each is one step that ends with the call's
\* return.
C26_OtherSessionsNotBlocked ==
  \A c \in Calls :
     (ctx[c].outcome = "pending" /\ Serving /\ now <= lim.calls) =>
        /\ ((\E p \in 1..lim.procs : proc[p] = "none") /\ SessionIds \ usedIds # {})
              => ENABLED CreateSession("", "C:\\Users\\test", NoId, FALSE)
        /\ lim.infos => ENABLED GetAllSessions
        /\ \A i \in ActiveSessions :
              (registry[i] # ctx[c].o /\ proc[registry[i]] = "alive") =>
                 /\ ENABLED WriteToSession(i, TRUE, FALSE)
                 /\ lim.reads => ENABLED ReadSessionOutput(i)
                 /\ FreeCalls # {} => ENABLED ExecuteCommand(i, MaxTimeout, FALSE)

\* C26 witness: the second executeCommand, made on another session while the
\* first was waiting, has resolved and the first is still waiting
C26_Witness ==
  /\ ev.op = "poll"
  /\ ctx[1].outcome = "pending"
  /\ ctx[2].outcome = "resolved"
  /\ ctx[1].o # ctx[2].o
  /\ sess[ctx[1].o].status = "active"
  /\ ctx[2].result # <<>>

\* C27: the result of tm_list holds every Active registered session exactly
\* once and no Closed session.
C27_ListHoldsActiveOnly ==
  [][(ev'.op = "tm_list") =>
        LET listed == ev'.result.sessions
        IN /\ \A i \in ActiveSessions :
                Cardinality({k \in 1..Len(listed) : listed[k].sessionId = i}) = 1
           /\ \A k \in 1..Len(listed) : listed[k].status # "closed"]_vars

\* C28: after the cleanup run by the shutdown handler, no session owns a live
\* process, whatever its status and lastActivity were.
C28_ShutdownKillsAll ==
  [][(ev'.op = "shutdown") =>
        \A o \in Pids : sess[o].status # "none" => proc'[o] # "alive"]_vars

\* C29: when a poll resolves a waiting executeCommand, the lines returned are
\* exactly the lines appended to the session's buffer after the command was
\* written and up to that poll, also when the buffer was full or trimmed.
C29_ResolvesWithAppendedLines ==
  [][\A c \in Calls :
        (ctx[c].outcome = "pending" /\ ctx'[c].outcome = "resolved") =>
           ctx'[c].result = SliceFrom(hist[ctx[c].o], ctx[c].histStart)]_vars

\* C30: a waiting executeCommand does not time out when, after the command
\* was written, the shell emitted lines ending in a prompt line and then
\* stayed quiet for two poll intervals in which two completion checks ran,
\* whatever the buffer held at the call.
C30_PromptThenQuietResolves ==
  [][\A c \in Calls :
        (ctx[c].outcome = "pending" /\ ctx'[c].outcome = "TimedOut") =>
           LET o == ctx[c].o
               h == hist[o]
           IN ~ /\ Len(h) > ctx[c].histStart
                /\ HasPrompt(sess[o].type, StripAnsi(h[Len(h)]))
                /\ Len(h) = ctx[c].histPolled
                /\ ctx[c].histQuiet >= 1
                /\ now - sess[o].lastActivity >= 2 * PollInterval]_vars

\* C21 as stated: the list a readSessionOutput returns is a prefix of the
\* lines appended to the session so far (refuted once the buffer has been
\* front-trimmed: the oldest lines are not in it).
C21_ReadObservesPrefix ==
  [][(ev'.op = "read" /\ ev'.outcome = "ok") =>
       LET h == hist[registry[ev'.sid]]
       IN /\ Len(ev'.value) <= Len(h)
          /\ \A k \in 1..Len(ev'.value) : ev'.value[k] = h[k]]_vars

\* C21 amended: a readSessionOutput returns, in their order of appending and
\* without a gap, the lines appended so far that end with the one appended
\* last: all of them up to maxOutputLines, the most recent maxOutputLines
\* otherwise; and the read changes no buffer.
C21_ReadObservesRecentWindow ==
  [][(ev'.op = "read" /\ ev'.outcome = "ok") =>
       LET h == hist[registry[ev'.sid]]
           v == ev'.value
       IN /\ Len(v) = Min(Len(h), MaxOutputLines)
          /\ \A k \in 1..Len(v) : v[k] = h[Len(h) - Len(v) + k]
          /\ UNCHANGED <<sess, hist>>]_vars

\* C21 witness: a read after front-trimming returns a list that does not start
\* with the first line appended
C21_Witness ==
  /\ ev.op = "read" /\ ev.outcome = "ok"
  /\ Len(hist[registry[ev.sid]]) > MaxOutputLines
  /\ Len(ev.value) = MaxOutputLines
  /\ ev.value[1] # hist[registry[ev.sid]][1]
  /\ ev.value[MaxOutputLines] = hist[registry[ev.sid]][Len(hist[registry[ev.sid]])]

\* C22 as stated: every step that changes the buffer of a session object is
\* the onData callback of the process spawned for that session (refuted: the
\* callback looks the session up by id, so under a reused id the output of the
\* first process is appended to the session that owns the second).
C22_OnlyOwnProcessAppends ==
  [][\A o \in Pids :
       (sess'[o].output # sess[o].output /\ sess[o].status # "none")
          => \E data \in Chunks : AppendOutput(o, data)]_vars

\* C31: a poll resolves a waiting executeCommand only when the shell has gone
\* quiet: no line was appended to the session's buffer since the poll before
\* it, and the lines returned are not empty.
C31_ResolvesOnlyWhenQuiet ==
  [][\A c \in Calls :
        (ctx[c].outcome = "pending" /\ ctx'[c].outcome = "resolved") =>
           /\ Len(hist[ctx[c].o]) = ctx[c].histPolled
           /\ Len(ctx'[c].result) > 0]_vars

\* C32: once an executeCommand call has completed (resolved, timed out or
\* failed in its write), none of its timers is scheduled: the timeout timer is
\* cancelled and no completion check is pending.
C32_NoTimerAfterCompletion ==
  \A c \in Calls :
     ctx[c].outcome \in {"resolved", "TimedOut", "WriteFailed"} =>
        (~ctx[c].timeoutArmed /\ ~ctx[c].pollArmed)

\* C33: closeAllSessions reports a session in failedSessions exactly when the
\* session is still Active and registered after the call; a session that was
\* marked Closed is not reported as failed.
C33_FailedAreStillActive ==
  [][(ev'.op \in {"closeAll", "tm_close"}) =>
        /\ \A i \in ActiveSessions :
              (i \in ev'.failed) <=> (registry'[i] # 0 /\ sess'[registry'[i]].status = "active")
        /\ ev'.failed \subseteq ActiveSessions]_vars

\* C34: for every session that leaves the registry, exactly one session-closed
\* notification has been emitted before or at its removal, also when the
\* sweep removes it because it was idle.
C34_RemovedWasNotifiedOnce ==
  [][\A i \in SessionIds :
        (registry[i] # 0 /\ registry'[i] = 0) =>
           Len(closedEmits'[registry[i]]) = 1]_vars

\* C35: the delayed deletion that closeAllSessions scheduled for a session
\* removes only that session: the entry it removes is not an Active session
\* and is the session that was closed when the timer was scheduled.
C35_DeletionRemovesClosedSession ==
  [][\A i \in SessionIds :
        (ev'.op = "delete" /\ registry[i] # 0 /\ registry'[i] = 0) =>
           \E t \in delTimers \ delTimers' :
              /\ t.sid = i
              /\ sess[registry[i]].status = "closed"
              /\ \E k \in 1..Len(closedEmits[registry[i]]) :
                    closedEmits[registry[i]][k] = t.due - GraceDelay]_vars

\* C36: a cleanup sweep never fails: it ends ok and every session that is
\* Closed or idle for longer than sessionTimeout is removed from the registry,
\* its session data untouched, also when its kill() or the kill() of another
\* session throws.
C36_SweepSwallowsKillErrors ==
  [][ev'.op \in {"cleanup", "shutdown"} =>
        /\ ev'.outcome = "ok"
        /\ \A i \in Registered :
              (\/ sess[registry[i]].status = "closed"
               \/ (now - sess[registry[i]].lastActivity) > SessionTimeout)
                 => /\ registry'[i] = 0
                    /\ i \in ev'.removed
                    /\ sess'[registry[i]] = sess[registry[i]]]_vars

\* C36 witness: a sweep removed two idle Active sessions; the kill() of one
\* threw (its process is still alive), the other was killed
C36_Witness ==
  /\ ev.op = "cleanup"
  /\ \E o1, o2 \in Objects :
        /\ o1 # o2
        /\ {sess[o1].id, sess[o2].id} \subseteq ev.removed
        /\ sess[o1].id # sess[o2].id
        /\ registry[sess[o1].id] = 0 /\ registry[sess[o2].id] = 0
        /\ sess[o1].status = "active" /\ proc[o1] = "alive"
        /\ sess[o2].status = "active" /\ proc[o2] = "exited"

\* C37: exitCode is written only by the step in which the exit callback of
\* the session's process moves the session from Active to Closed: never on a
\* session that is already Closed, and not by closeAllSessions.
C37_ExitCodeSetOnExitTransition ==
  [][\A o \in Pids :
        (sess[o].status # "none" /\ sess'[o].exitCode # sess[o].exitCode) =>
           /\ sess[o].status = "active"
           /\ sess'[o].status = "closed"
           /\ ev'.op = "onExit"]_vars

\* C38: a read, wherever it falls among the output callbacks, sees the buffer
\* as whole appends left it and does not throw: it succeeds for every
\* registered session, returns at most maxOutputLines lines, and these are
\* one unbroken run of the appended lines up to the newest (no line twice,
\* none missing in between).
C38_ReadSeesWholeAppends ==
  [][(ev'.op = "read" /\ ev'.sid # NoId /\ registry[ev'.sid] # 0) =>
        LET h == hist[registry[ev'.sid]]
            v == ev'.value
        IN /\ ev'.outcome = "ok"
           /\ Len(v) <= MaxOutputLines
           /\ Len(v) <= Len(h)
           /\ v = SubSeq(h, Len(h) - Len(v) + 1, Len(h))
           /\ v = sess'[registry[ev'.sid]].output]_vars

\* C38 witness: a read right after a chunk of two lines was appended to a full
\* buffer returns maxOutputLines lines that end with the two new lines
C38_Witness ==
  /\ ev.op = "read" /\ ev.outcome = "ok"
  /\ Len(hist[registry[ev.sid]]) >= MaxOutputLines + 2
  /\ Len(ev.value) = MaxOutputLines
  /\ ev.value[MaxOutputLines] = <<"b", ">">>
  /\ ev.value[MaxOutputLines - 1] = <<"a">>
  /\ hist[registry[ev.sid]][Len(hist[registry[ev.sid]]) - MaxOutputLines] # <<"a">>

\* the lines the shells of the prompt scenario print
PsLine == <<"P", "S", " ", "C", ":", "\\", ">", " ">>
CmdLine == <<"C", ":", "\\", ">">>
BareLine == <<"b", ">">>

\* C39: prompt recognition depends on the terminal type. A completion check of
\* a waiting call that finds the output stable and not empty resolves the
\* call, for a PowerShell session, exactly when the output ends in the
\* PowerShell prompt (not with the cmd prompt, not with a bare trailing ">"),
\* and for a cmd session exactly when it ends in a drive-letter prompt or in a
\* bare trailing ">".
C39_PromptByTerminalType ==
  [][\A c \in Calls :
        (ctx[c].outcome = "pending" /\ ev'.op = "poll" /\ ctx'[c] # ctx[c]) =>
           LET session == sess[ctx[c].o]
               out == SliceFrom(session.output, ctx[c].startLength)
               stable == ctx'[c].stableCount >= 1 /\ Len(out) > 0
               prompts == IF session.type = "powershell" THEN {PsLine}
                          ELSE {PsLine, CmdLine, BareLine}
           IN (ctx'[c].outcome = "resolved") <=> (stable /\ out[Len(out)] \in prompts)]_vars

\* C39 witness: a completion check of a PowerShell session found the output
\* stable and ending in a bare ">" and did not resolve the call
C39_Witness ==
  \E c \in Calls :
     /\ ev.op = "poll" /\ ev.outcome = "pending"
     /\ ctx[c].outcome = "pending"
     /\ ctx[c].stableCount >= 1
     /\ sess[ctx[c].o].type = "powershell"
     /\ Len(sess[ctx[c].o].output) > ctx[c].startLength
     /\ sess[ctx[c].o].output[Len(sess[ctx[c].o].output)] = BareLine

====
